---- MODULE Spec2Model ----
(***************************************************************************)
(* Workout Agent: the FastAPI service of workout_agent.py.                 *)
(*                                                                         *)
(* The service runs on one asyncio event loop: a handler runs atomically   *)
(* from one suspension point (an awaited network call) to the next.  The   *)
(* endpoints GET /, GET /health and POST /bmr never await anything and are *)
(* one step each; POST /analyze suspends on every request it sends to the  *)
(* generation backend, so several /analyze invocations interleave there.   *)
(* A request occupies a slot from its arrival until its response is sent;  *)
(* the locals of a run (its counters) are gone once the run has ended.     *)
(*                                                                         *)
(* Numbers.  weight and height are floats in the code; the model takes     *)
(* them on the integer grid (kg, cm) and computes exactly: a BMR value is  *)
(* an integer count of 1/160 kcal (the base is a multiple of 1/4, every    *)
(* multiplier a multiple of 1/40).  The float the code computes differs    *)
(* from that value by a rounding error of the last bit at most, which only *)
(* round() can expose, and only on a tie: there the model allows both      *)
(* neighbours.  Strings that the code inspects (gender) are sequences of   *)
(* one-character strings.                                                  *)
(*                                                                         *)
(* The library.  Agent.run asks the model, runs the tools the model calls, *)
(* validates the final output against result_type and, on a validation     *)
(* failure, counts a result retry: it asks again while the count does not  *)
(* exceed result_retries and raises UnexpectedModelBehavior once it does.  *)
(* Any other exception (of the HTTP client, of a tool) leaves the run.     *)
(* An attempt is the part of a run between two requests for a result: the  *)
(* requests the run sends until the model answers with a final output,     *)
(* the tool calls the model makes on the way included.  The library sets   *)
(* no limit of its own on those tool calls; the model bounds them.  Tool   *)
(* calls that the model makes in one answer are taken one after another.   *)
(*                                                                         *)
(* Cancellation.  The calling context may cancel a handler that waits on a *)
(* request: CancelledError is raised at the await and, being no Exception, *)
(* passes the handlers' "except Exception"; the request gets no response.  *)
(***************************************************************************)
EXTENDS Integers, Sequences, FiniteSets, TLC

VARIABLES
    apiKey,             \* environment: OPENAI_API_KEY is set
    fitness_agent,      \* module global fitness_agent
    motivational_agent, \* module global motivational_agent
    pc,                 \* per request: "idle", suspended in a run, or "done"
    op,                 \* per request: the endpoint (or function) it calls
    prof,               \* per request: the body sent, a FitnessProfile or not
    retry,              \* per running /analyze: the run's result-retry counter
    genReqs,            \* per running /analyze: requests sent to the fitness model
                        \* in the attempt under way
    motivCalls,         \* per running /analyze: get_motivation invocations of the attempt
    mRetry,             \* per running /analyze: result retries of the motivational run
    sent,               \* per running /analyze: the request it waits on
    batch,              \* per running /analyze: what get_motivation returned last
    resp,               \* per request: the response, once done
    secrets,            \* Streamlit's secrets: the entry OPENAI_API_KEY
    loop,               \* the request whose handler runs on the event loop, or 0
    st_fitness_agent,   \* per script run of the Streamlit app: its global fitness_agent
    agent               \* per request: the local agent of analyze_profile

vars == <<apiKey, fitness_agent, motivational_agent, pc, op, prof, retry, genReqs,
          motivCalls, mRetry, sent, batch, resp, secrets, loop, st_fitness_agent, agent>>

----------------------------------------------------------------------------
(* Bounds of the model *)

NumReq == 2

MaxToolCalls == 2

Req == 1..NumReq

----------------------------------------------------------------------------
(* Enums and constants of the program *)

ActivityLevel ==
    {"sedentary", "lightly_active", "moderately_active", "very_active",
     "extremely_active"}

\* One result retry fewer.
result_retries_fewer == 3 - 1

result_retries == 3

\* A motivational agent constructed with no retry.
motivational_retries_none == 1 - 1

motivational_retries == 1

AGE_MIN == 13

AGE_MAX == 120

CALORIE_DELTA == 500

----------------------------------------------------------------------------
(* Strings the code inspects *)

STR_male == <<"m", "a", "l", "e">>

LowerChar(c) ==
    CASE c = "M" -> "m"
      [] c = "A" -> "a"
      [] c = "L" -> "l"
      [] c = "E" -> "e"
      [] c = "F" -> "f"
      [] OTHER -> c

Lower(s) == [i \in 1..Len(s) |-> LowerChar(s[i])]

Genders ==
    { <<"m", "a", "l", "e">>,
      <<"M", "a", "l", "e">>,
      <<"M", "A", "L", "E">>,
      <<"m", "A", "l", "E">>,
      <<"f", "e", "m", "a", "l", "e">>,
      <<"F", "e", "m", "a", "l", "e">>,
      <<"o", "t", "h", "e", "r">>,
      <<"m", "a", "l", "e", " ">>,
      <<>> }

----------------------------------------------------------------------------
(* Profile Model *)

Profile(a, w, h, g, lvl, goals) ==
    [age |-> a, weight |-> w, height |-> h, gender |-> g,
     activity_level |-> lvl, fitness_goals |-> goals]

NoProfile == Profile(0, 0, 0, <<>>, "none", "none")

\* The constraints without the upper bound of age.
FitnessProfileValid_no_upper_age(p) ==
    /\ p.age >= AGE_MIN
    /\ p.weight > 0
    /\ p.height > 0
    /\ p.activity_level \in ActivityLevel

\* FitnessProfile's Field constraints, as FastAPI applies them to a request body.
FitnessProfileValid(p) ==
    /\ p.age >= AGE_MIN
    /\ p.age <= AGE_MAX
    /\ p.weight > 0
    /\ p.height > 0
    /\ p.activity_level \in ActivityLevel

----------------------------------------------------------------------------
(* Metabolic Calculator *)

\* A table that lacks the key of one activity level.
activity_multipliers_incomplete ==
    [sedentary |-> 48, lightly_active |-> 55, moderately_active |-> 62,
     very_active |-> 69]

\* The activity multipliers, in 1/40: 1.2, 1.375, 1.55, 1.725, 1.9.
activity_multipliers ==
    [sedentary |-> 48, lightly_active |-> 55, moderately_active |-> 62,
     very_active |-> 69, extremely_active |-> 76]

\* The branch of calculate_bmr that compares the strings as they are.
calculate_bmr_case_sensitive(p) ==
    LET bmr == IF p.gender = STR_male
               THEN 40 * p.weight + 25 * p.height - 20 * p.age + 20
               ELSE 40 * p.weight + 25 * p.height - 20 * p.age - 644
    IN  bmr * activity_multipliers[p.activity_level]

\* calculate_bmr(profile), in 1/160 kcal; bmr below is the code's bmr in 1/4 kcal.
calculate_bmr(p) ==
    LET bmr == IF Lower(p.gender) = STR_male
               THEN 40 * p.weight + 25 * p.height - 20 * p.age + 20
               ELSE 40 * p.weight + 25 * p.height - 20 * p.age - 644
    IN  bmr * activity_multipliers[p.activity_level]

\* activity_multipliers[profile.activity_level] raises KeyError on a missing key.
calculate_bmr_raises(p) == p.activity_level \notin DOMAIN activity_multipliers

\* Whether the multiplier's literal is a binary fraction (1.375 = 11/8): the
\* float product bmr * multiplier is then computed exactly.  With any other
\* multiplier the product carries a rounding error of the last bit.
MultiplierExact(lvl) == lvl = "lightly_active"

\* A rounding that truncates toward minus infinity.
RoundOutcomes_floor(n, d, exact) == {n \div d}

\* Python's round() of the float that stands for n/d (d > 0), as a set of
\* outcomes: the nearest integer; on a tie of an exactly computed float the
\* even neighbour; on a tie of n/d whose float carries a rounding error, the
\* neighbour that the error decides, either of the two.
RoundOutcomes(n, d, exact) ==
    LET q == n \div d
        r == n % d
    IN  IF 2 * r < d THEN {q}
        ELSE IF 2 * r > d THEN {q + 1}
        ELSE IF exact THEN {IF q % 2 = 0 THEN q ELSE q + 1}
        ELSE {q, q + 1}

\* The bodies a 200 response of POST /bmr can carry for p: bmr in 1/100 kcal
\* (round(bmr, 2)), the calorie figures in kcal (round(x, 0)).
BmrBodies(p) ==
    LET bmr == calculate_bmr(p)
        ex  == MultiplierExact(p.activity_level)
    IN  { [bmr |-> b, daily_calories |-> dc, weight_loss_calories |-> wl,
           weight_gain_calories |-> wg, activity_level |-> p.activity_level] :
          b \in RoundOutcomes(100 * bmr, 160, ex),
          dc \in RoundOutcomes(bmr, 160, ex),
          wl \in RoundOutcomes(bmr - CALORIE_DELTA * 160, 160, ex),
          wg \in RoundOutcomes(bmr + CALORIE_DELTA * 160, 160, ex) }

----------------------------------------------------------------------------
(* Report Model and the backend's raw outputs *)

Exercise(s, r, t) == [sets |-> s, reps |-> r, rest_time |-> t]

Meal(c, p, cb, f) == [calories |-> c, protein |-> p, carbs |-> cb, fats |-> f]

ReportFields ==
    {"workout_plan", "nutrition_plan", "daily_calories", "motivational_quote",
     "recommendations"}

\* fields: the fields present in the output; a field not in it is missing.
Output(fs, wp, np, dc, q, rec) ==
    [fields |-> fs, workout_plan |-> wp, nutrition_plan |-> np,
     daily_calories |-> dc, motivational_quote |-> q, recommendations |-> rec]

GoodOutput ==
    Output(ReportFields, <<Exercise(3, 10, 60)>>, <<Meal(500, 30, 50, 10)>>,
           2556, "q1", <<"r1">>)

\* Every list empty and the quote empty: all fields present, all of the right type.
HollowOutput == Output(ReportFields, <<>>, <<>>, 0, "", <<>>)

NegativeCaloriesOutput ==
    Output(ReportFields, <<Exercise(3, 10, 60)>>, <<Meal(500, 30, 50, 10)>>,
           -1, "q1", <<"r1">>)

MissingQuoteOutput ==
    Output(ReportFields \ {"motivational_quote"}, <<Exercise(3, 10, 60)>>,
           <<Meal(500, 30, 50, 10)>>, 2556, "", <<"r1">>)

ZeroSetsOutput ==
    Output(ReportFields, <<Exercise(0, 10, 60)>>, <<Meal(500, 30, 50, 10)>>,
           2556, "q1", <<"r1">>)

NegativeMealOutput ==
    Output(ReportFields, <<Exercise(3, 10, 60)>>, <<Meal(-5, 30, 50, 10)>>,
           2556, "q1", <<"r1">>)

\* A quote of the model's own making.
OwnQuoteOutput ==
    Output(ReportFields, <<Exercise(3, 10, 60)>>, <<Meal(500, 30, 50, 10)>>,
           2556, "q9", <<"r1">>)

RawOutputs ==
    {GoodOutput, HollowOutput, NegativeCaloriesOutput, MissingQuoteOutput,
     ZeroSetsOutput, NegativeMealOutput, OwnQuoteOutput}

ExerciseValid(e) == e.sets >= 1 /\ e.reps >= 1 /\ e.rest_time >= 0

MealValid(m) == m.calories >= 0 /\ m.protein >= 0 /\ m.carbs >= 0 /\ m.fats >= 0

\* Validation of an output against FitnessReportResult: every field is required
\* (Field(...)), list items are validated as Exercise and Meal; no length and no
\* range constraint is declared on the report's own fields.
FitnessReportResultValid(o) ==
    /\ ReportFields \subseteq o.fields
    /\ \A i \in 1..Len(o.workout_plan) : ExerciseValid(o.workout_plan[i])
    /\ \A i \in 1..Len(o.nutrition_plan) : MealValid(o.nutrition_plan[i])

----------------------------------------------------------------------------
(* Exceptions and HTTP responses *)

\* Messages (str(e)) are sequences of string fragments.
MSG_no_api_key == <<"The api_key client option must be set">>

\* The library's UnexpectedModelBehavior when a run exceeds n result retries.
MSG_retries(n) ==
    <<"Exceeded maximum retries (", ToString(n), ") for result validation">>

MSG_connection == <<"Connection error.">>

MSG_rate_limit == <<"Rate limit reached">>

\* The messages of the transport-level failures of a request to the backend.
TransportMessages == {MSG_connection, MSG_rate_limit}

NoBody == [none |-> TRUE]

\* calls: the functions of the module that the handler called.
Response(st, e, d, b, c) ==
    [status |-> st, exc |-> e, detail |-> d, body |-> b, calls |-> c]

NoResponse == Response(0, "none", <<>>, NoBody, {})

\* The response to a body that is no valid FitnessProfile: the handler is not run.
UnprocessableResponse ==
    Response(422, "RequestValidationError", <<"validation error">>, NoBody, {})

\* str(e) of the HTTPException that analyze_profile raises for message m.
AnalyzeProfileDetail(m) == <<"Error analyzing profile: ">> \o m

\* An error response whose status tells a transport failure (502) apart.
AnalyzeErrorResponse_by_cause(m) ==
    Response(IF m \in TransportMessages THEN 502 ELSE 500, "HTTPException",
             <<"500: ">> \o AnalyzeProfileDetail(m), NoBody, {"analyze_profile"})

\* analyze_fitness answering a failure of analyze_profile with an empty 200.
AnalyzeErrorResponse_swallowed(m) ==
    Response(200, "none", <<>>, NoBody, {"analyze_profile"})

\* The response FastAPI sends for the HTTPException that analyze_fitness raises
\* when analyze_profile raised HTTPException(500, AnalyzeProfileDetail(m)):
\* str(e) of an HTTPException is "<status_code>: <detail>".
AnalyzeErrorResponse(m) ==
    Response(500, "HTTPException", <<"500: ">> \o AnalyzeProfileDetail(m), NoBody,
             {"analyze_profile"})

\* The response of /analyze when analyze_profile returned o.
AnalyzeResponse(o) == Response(200, "none", <<>>, o, {"analyze_profile"})

----------------------------------------------------------------------------
(* Requests to the backend and the motivation step's result *)

\* A system prompt computed once, from the first profile the service saw, and
\* kept for every run.
add_user_fitness_data_stale(deps) ==
    [age |-> 30, weight |-> 70, height |-> 175, gender |-> <<"m", "a", "l", "e">>,
     activity_level |-> "moderately_active", fitness_goals |-> "none"]

\* The dynamic system prompt of the fitness agent for a run with deps:
\* "User fitness profile and goals: {deps!r}", the repr naming every field.
add_user_fitness_data(deps) ==
    [age |-> deps.age, weight |-> deps.weight, height |-> deps.height,
     gender |-> deps.gender, activity_level |-> deps.activity_level,
     fitness_goals |-> deps.fitness_goals]

\* The fields that get_motivation writes into its prompt for a run with deps.
MotivationPrompt(deps) ==
    [age |-> deps.age, gender |-> deps.gender,
     activity_level |-> deps.activity_level,
     goals |-> IF deps.fitness_goals = "none"
               THEN "general fitness improvement"
               ELSE deps.fitness_goals]

NoPrompt == [age |-> 0, gender |-> <<>>, activity_level |-> "none", goals |-> "none"]

\* to: the agent whose model is asked; context: the profile in the system
\* prompt; prompt: the profile fields in the user prompt.
Request(to, ctx, p) == [to |-> to, context |-> ctx, prompt |-> p]

NoRequest == Request("none", add_user_fitness_data(NoProfile), NoPrompt)

\* agent.run("Create a personalized ... plan ...", deps=profile): every request
\* of the run carries the system prompts, evaluated with the run's deps.
FitnessRequest(deps) == Request("fitness", add_user_fitness_data(deps), NoPrompt)

\* motivational_agent.run(prompt)
MotivationRequest(deps) ==
    Request("motivational", add_user_fitness_data(NoProfile), MotivationPrompt(deps))

NoBatch == <<>>

\* The lists of strings the motivational model returns (result.data).
MotivationBatches == {<<"q1", "q2">>}

----------------------------------------------------------------------------
(* Agents *)

\* serial tells the objects apart that successive constructions would make.
NoneAgent ==
    [exists |-> FALSE, serial |-> 0, result_retries |-> 0, system_prompts |-> {},
     tools |-> {}]

\* Agent('openai:gpt-4', deps_type, result_type, result_retries=3, system_prompt)
\* with add_user_fitness_data and get_motivation registered on it.
FitnessAgent ==
    [exists |-> TRUE, serial |-> 1, result_retries |-> result_retries,
     system_prompts |-> {"system_prompt", "add_user_fitness_data"},
     tools |-> {"get_motivation"}]

\* Agent('openai:gpt-4', result_type=List[str], system_prompt): retries left at
\* the library's default.
MotivationalAgent ==
    [exists |-> TRUE, serial |-> 1, result_retries |-> motivational_retries,
     system_prompts |-> {"system_prompt"}, tools |-> {}]

\* Agent(...) builds the OpenAI client, which raises without an API key.
AgentConstructionRaises == ~apiKey

get_fitness_agent_raises == fitness_agent = NoneAgent /\ AgentConstructionRaises

\* A getter without the "is None" test: every call constructs an agent.
get_fitness_agent_rebuilding ==
    IF ~AgentConstructionRaises
    THEN [FitnessAgent EXCEPT !.serial = (fitness_agent.serial % 2) + 1]
    ELSE fitness_agent

\* The global fitness_agent after get_fitness_agent().
get_fitness_agent ==
    IF fitness_agent = NoneAgent /\ ~AgentConstructionRaises
    THEN FitnessAgent
    ELSE fitness_agent

get_motivational_agent_raises ==
    motivational_agent = NoneAgent /\ AgentConstructionRaises

\* The global motivational_agent after get_motivational_agent().
get_motivational_agent ==
    IF motivational_agent = NoneAgent /\ ~AgentConstructionRaises
    THEN MotivationalAgent
    ELSE motivational_agent

----------------------------------------------------------------------------
(* Request bodies the clients send *)

MaleProfile ==
    Profile(30, 70, 175, <<"m", "a", "l", "e">>, "moderately_active", "none")

FemaleProfile ==
    Profile(25, 60, 165, <<"f", "e", "m", "a", "l", "e">>, "lightly_active",
            "lose fat")

ValidBodies == {MaleProfile, FemaleProfile}

InvalidBodies ==
    { Profile(12, 70, 175, <<"m", "a", "l", "e">>, "moderately_active", "none"),
      Profile(121, 70, 175, <<"m", "a", "l", "e">>, "moderately_active", "none"),
      Profile(30, 0, 175, <<"m", "a", "l", "e">>, "moderately_active", "none"),
      Profile(30, 70, 0, <<"m", "a", "l", "e">>, "moderately_active", "none") }

Bodies == ValidBodies \cup InvalidBodies

\* The bodies sent to POST /analyze.
AnalyzeBodies == {MaleProfile} \cup InvalidBodies

----------------------------------------------------------------------------
(* Bodies of the endpoints that never suspend *)

RootBody ==
    [message |-> "Welcome to Workout Agent API", version |-> "1.0.0",
     endpoints |-> {"/analyze", "/health", "/bmr"}]

HealthBody == [status |-> "healthy", service |-> "workout-agent"]

----------------------------------------------------------------------------
(* Initial state: the module has been imported, nothing has been requested *)

Init ==
    /\ apiKey \in BOOLEAN
    /\ fitness_agent = NoneAgent
    /\ motivational_agent = NoneAgent
    /\ pc = [r \in Req |-> "idle"]
    /\ op = [r \in Req |-> "none"]
    /\ prof = [r \in Req |-> NoProfile]
    /\ retry = [r \in Req |-> 0]
    /\ genReqs = [r \in Req |-> 0]
    /\ motivCalls = [r \in Req |-> 0]
    /\ mRetry = [r \in Req |-> 0]
    /\ sent = [r \in Req |-> NoRequest]
    /\ batch = [r \in Req |-> NoBatch]
    /\ resp = [r \in Req |-> NoResponse]
    /\ secrets = "none"
    /\ loop = 0
    /\ st_fitness_agent = [r \in Req |-> NoneAgent]
    /\ agent = [r \in Req |-> NoneAgent]

\* Request r arrives at endpoint e with body p.
Arrive(r, e, p) ==
    /\ pc[r] = "idle"
    /\ op' = [op EXCEPT ![r] = e]
    /\ prof' = [prof EXCEPT ![r] = p]

\* Request r ends with response x; the locals of its runs are gone.
Finish(r, x) ==
    /\ pc' = [pc EXCEPT ![r] = "done"]
    /\ resp' = [resp EXCEPT ![r] = x]
    /\ retry' = [retry EXCEPT ![r] = 0]
    /\ genReqs' = [genReqs EXCEPT ![r] = 0]
    /\ motivCalls' = [motivCalls EXCEPT ![r] = 0]
    /\ mRetry' = [mRetry EXCEPT ![r] = 0]
    /\ sent' = [sent EXCEPT ![r] = NoRequest]
    /\ batch' = [batch EXCEPT ![r] = NoBatch]

----------------------------------------------------------------------------
(* GET /, GET /health, POST /bmr *)

root(r) ==
    /\ Arrive(r, "root", NoProfile)
    /\ Finish(r, Response(200, "none", <<>>, RootBody, {}))
    /\ UNCHANGED <<secrets, loop, st_fitness_agent, agent,
                   apiKey, fitness_agent, motivational_agent>>

\* A health check that reports the backend's availability.
HealthResponse_backend ==
    IF apiKey
    THEN Response(200, "none", <<>>, HealthBody, {})
    ELSE Response(200, "none", <<>>,
                  [status |-> "unhealthy", service |-> "workout-agent"], {})

HealthResponse == Response(200, "none", <<>>, HealthBody, {})

health_check(r) ==
    /\ Arrive(r, "health", NoProfile)
    /\ Finish(r, HealthResponse)
    /\ UNCHANGED <<secrets, loop, st_fitness_agent, agent,
                   apiKey, fitness_agent, motivational_agent>>

\* The responses POST /bmr can give to body p.
BmrResponses(p) ==
    IF ~FitnessProfileValid(p)
    THEN {UnprocessableResponse}
    ELSE IF calculate_bmr_raises(p)
    THEN {Response(500, "HTTPException", <<"Error calculating BMR: ">>, NoBody,
                   {"calculate_bmr"})}
    ELSE { Response(200, "none", <<>>, b, {"calculate_bmr"}) : b \in BmrBodies(p) }

\* POST /bmr getting the fitness agent before it computes, as /analyze does.
calculate_bmr_endpoint_with_agent(r, p) ==
    /\ Arrive(r, "bmr", p)
    /\ IF ~FitnessProfileValid(p)
       THEN /\ Finish(r, UnprocessableResponse)
            /\ UNCHANGED fitness_agent
       ELSE IF get_fitness_agent_raises
       THEN /\ Finish(r, Response(500, "HTTPException", <<"Error calculating BMR: ">>,
                                  NoBody, {}))
            /\ UNCHANGED fitness_agent
       ELSE /\ fitness_agent' = get_fitness_agent
            /\ \E x \in BmrResponses(p) : Finish(r, x)
    /\ UNCHANGED <<secrets, loop, st_fitness_agent, agent, apiKey, motivational_agent>>

calculate_bmr_endpoint(r, p) ==
    /\ Arrive(r, "bmr", p)
    /\ \E x \in BmrResponses(p) : Finish(r, x)
    /\ UNCHANGED <<secrets, loop, st_fitness_agent, agent,
                   apiKey, fitness_agent, motivational_agent>>

\* A calculator whose result depends on a global of the module.
CalculateBmrResult_stateful(p) ==
    Response(0, "none", <<>>,
             [value |-> calculate_bmr(p) + (IF fitness_agent = NoneAgent THEN 0 ELSE 160)],
             {"calculate_bmr"})

\* calculate_bmr(FitnessProfile(...)) called directly, as the test script does:
\* the constructor raises on a profile outside the Field constraints.
CalculateBmrResult(p) ==
    IF ~FitnessProfileValid(p)
    THEN Response(0, "ValidationError", <<"validation error">>, NoBody, {})
    ELSE IF calculate_bmr_raises(p)
    THEN Response(0, "KeyError", <<"key error">>, NoBody, {"calculate_bmr"})
    ELSE Response(0, "none", <<>>, [value |-> calculate_bmr(p)], {"calculate_bmr"})

calculate_bmr_call(r, p) ==
    /\ Arrive(r, "calculate_bmr", p)
    /\ Finish(r, CalculateBmrResult(p))
    /\ UNCHANGED <<secrets, loop, st_fitness_agent, agent,
                   apiKey, fitness_agent, motivational_agent>>

----------------------------------------------------------------------------
(* POST /analyze *)

\* The request arrives: FastAPI validates the body, analyze_fitness calls
\* analyze_profile, which gets the agent and starts agent.run; the run sends its
\* first request to the model and suspends.
analyze_fitness(r, p) ==
    /\ Arrive(r, "analyze", p)
    /\ IF ~FitnessProfileValid(p)
       THEN /\ Finish(r, UnprocessableResponse)
            /\ UNCHANGED fitness_agent
       ELSE IF get_fitness_agent_raises
       THEN /\ Finish(r, AnalyzeErrorResponse(MSG_no_api_key))
            /\ UNCHANGED fitness_agent
       ELSE /\ fitness_agent' = get_fitness_agent
            /\ pc' = [pc EXCEPT ![r] = "generating"]
            /\ genReqs' = [genReqs EXCEPT ![r] = 1]
            /\ sent' = [sent EXCEPT ![r] = FitnessRequest(p)]
            /\ UNCHANGED <<resp, retry, motivCalls, mRetry, batch>>
    /\ UNCHANGED <<secrets, loop, st_fitness_agent, agent, apiKey, motivational_agent>>

\* A run that starts its retries afresh when they are exceeded.
ModelReturnsResult_restarting(r, o) ==
    /\ pc[r] = "generating"
    /\ IF FitnessReportResultValid(o)
       THEN Finish(r, AnalyzeResponse(o))
       ELSE /\ retry' = [retry EXCEPT ![r] = (@ + 1) % (fitness_agent.result_retries + 1)]
            /\ genReqs' = [genReqs EXCEPT ![r] = 1]
            /\ motivCalls' = [motivCalls EXCEPT ![r] = 0]
            /\ batch' = [batch EXCEPT ![r] = NoBatch]
            /\ sent' = [sent EXCEPT ![r] = FitnessRequest(prof[r])]
            /\ UNCHANGED <<pc, resp, mRetry>>
    /\ UNCHANGED <<secrets, loop, st_fitness_agent, agent,
                   apiKey, fitness_agent, motivational_agent, op, prof>>

\* A run that asks the model again after a valid output, once.
ModelReturnsResult_regenerating(r, o) ==
    /\ pc[r] = "generating"
    /\ IF FitnessReportResultValid(o) /\ retry[r] > 0
       THEN Finish(r, AnalyzeResponse(o))
       ELSE IF retry[r] + 1 > fitness_agent.result_retries
       THEN Finish(r, AnalyzeErrorResponse(MSG_retries(fitness_agent.result_retries)))
       ELSE /\ retry' = [retry EXCEPT ![r] = @ + 1]
            /\ genReqs' = [genReqs EXCEPT ![r] = 1]
            /\ motivCalls' = [motivCalls EXCEPT ![r] = 0]
            /\ batch' = [batch EXCEPT ![r] = NoBatch]
            /\ sent' = [sent EXCEPT ![r] = FitnessRequest(prof[r])]
            /\ UNCHANGED <<pc, resp, mRetry>>
    /\ UNCHANGED <<secrets, loop, st_fitness_agent, agent,
                   apiKey, fitness_agent, motivational_agent, op, prof>>

\* A run that answers a transport failure by sending the request again.
ModelTransportError_retrying(r, m) ==
    /\ pc[r] = "generating"
    /\ genReqs' = [genReqs EXCEPT ![r] = @ + 1]
    /\ UNCHANGED <<secrets, loop, st_fitness_agent, agent,
                   apiKey, fitness_agent, motivational_agent, pc, op, prof, retry,
                   motivCalls, mRetry, sent, batch, resp>>

\* The model answers the run's request with a final result o.  A valid one ends
\* the run; an invalid one counts a result retry and, while the retries are not
\* exceeded, the run asks the model again: the next attempt.
ModelReturnsResult(r, o) ==
    /\ pc[r] = "generating"
    /\ IF FitnessReportResultValid(o)
       THEN Finish(r, AnalyzeResponse(o))
       ELSE IF retry[r] + 1 > fitness_agent.result_retries
       THEN Finish(r, AnalyzeErrorResponse(MSG_retries(fitness_agent.result_retries)))
       ELSE /\ retry' = [retry EXCEPT ![r] = @ + 1]
            /\ genReqs' = [genReqs EXCEPT ![r] = 1]
            /\ motivCalls' = [motivCalls EXCEPT ![r] = 0]
            /\ batch' = [batch EXCEPT ![r] = NoBatch]
            /\ sent' = [sent EXCEPT ![r] = FitnessRequest(prof[r])]
            /\ UNCHANGED <<pc, resp, mRetry>>
    /\ UNCHANGED <<secrets, loop, st_fitness_agent, agent,
                   apiKey, fitness_agent, motivational_agent, op, prof>>

\* The model answers with a call of the get_motivation tool: the tool gets the
\* motivational agent and starts its run, which sends one request and suspends.
ModelCallsTool(r) ==
    /\ pc[r] = "generating"
    /\ "get_motivation" \in fitness_agent.tools
    /\ motivCalls[r] < MaxToolCalls
    /\ IF get_motivational_agent_raises
       THEN /\ Finish(r, AnalyzeErrorResponse(MSG_no_api_key))
            /\ UNCHANGED motivational_agent
       ELSE /\ motivational_agent' = get_motivational_agent
            /\ pc' = [pc EXCEPT ![r] = "motivating"]
            /\ motivCalls' = [motivCalls EXCEPT ![r] = @ + 1]
            /\ sent' = [sent EXCEPT ![r] = MotivationRequest(prof[r])]
            /\ UNCHANGED <<resp, retry, genReqs, mRetry, batch>>
    /\ UNCHANGED <<secrets, loop, st_fitness_agent, agent, apiKey, fitness_agent, op, prof>>

\* The run's request fails at transport level: the exception leaves agent.run.
ModelTransportError(r, m) ==
    /\ pc[r] = "generating"
    /\ Finish(r, AnalyzeErrorResponse(m))
    /\ UNCHANGED <<secrets, loop, st_fitness_agent, agent,
                   apiKey, fitness_agent, motivational_agent, op, prof>>

\* The motivational run returns the list of strings b: the tool returns it and
\* the fitness run sends the model its next request, carrying the tool's result.
MotivationReturns(r, b) ==
    /\ pc[r] = "motivating"
    /\ pc' = [pc EXCEPT ![r] = "generating"]
    /\ genReqs' = [genReqs EXCEPT ![r] = @ + 1]
    /\ mRetry' = [mRetry EXCEPT ![r] = 0]
    /\ batch' = [batch EXCEPT ![r] = b]
    /\ sent' = [sent EXCEPT ![r] = FitnessRequest(prof[r])]
    /\ UNCHANGED <<secrets, loop, st_fitness_agent, agent,
                   apiKey, fitness_agent, motivational_agent, op, prof, retry,
                   motivCalls, resp>>

\* The motivational run's output is no list of strings: the run retries within
\* its own result retries (it sends its request again), then raises, and the
\* exception leaves both runs.
MotivationInvalid(r) ==
    /\ pc[r] = "motivating"
    /\ IF mRetry[r] + 1 > motivational_agent.result_retries
       THEN Finish(r, AnalyzeErrorResponse(MSG_retries(motivational_agent.result_retries)))
       ELSE /\ mRetry' = [mRetry EXCEPT ![r] = @ + 1]
            /\ UNCHANGED <<pc, resp, retry, genReqs, motivCalls, sent, batch>>
    /\ UNCHANGED <<secrets, loop, st_fitness_agent, agent,
                   apiKey, fitness_agent, motivational_agent, op, prof>>

MotivationTransportError(r, m) ==
    /\ pc[r] = "motivating"
    /\ Finish(r, AnalyzeErrorResponse(m))
    /\ UNCHANGED <<secrets, loop, st_fitness_agent, agent,
                   apiKey, fitness_agent, motivational_agent, op, prof>>

\* A handler that catches the cancellation as it catches an Exception.
CancelledResponse_caught == AnalyzeErrorResponse(<<"">>)

\* The outcome of a cancelled request: CancelledError is no Exception, so the
\* handlers of analyze_profile and analyze_fitness let it pass; no response.
CancelledResponse ==
    Response(0, "CancelledError", <<>>, NoBody, {"analyze_profile"})

\* The calling context cancels request r while it waits on a request to the
\* backend: CancelledError is thrown into the handler at its await.
Cancel(r) ==
    /\ pc[r] \in {"generating", "motivating"}
    /\ Finish(r, CancelledResponse)
    /\ UNCHANGED <<secrets, loop, st_fitness_agent, agent,
                   apiKey, fitness_agent, motivational_agent, op, prof>>

\* The response has been sent; the slot serves the next request.
Complete(r) ==
    /\ pc[r] = "done"
    /\ pc' = [pc EXCEPT ![r] = "idle"]
    /\ op' = [op EXCEPT ![r] = "none"]
    /\ prof' = [prof EXCEPT ![r] = NoProfile]
    /\ resp' = [resp EXCEPT ![r] = NoResponse]
    /\ UNCHANGED <<secrets, loop, st_fitness_agent, agent,
                   apiKey, fitness_agent, motivational_agent, retry, genReqs,
                   motivCalls, mRetry, sent, batch>>

\* The environment sets or unsets OPENAI_API_KEY.
SetApiKey ==
    /\ apiKey' = ~apiKey
    /\ UNCHANGED <<secrets, loop, st_fitness_agent, agent,
                   fitness_agent, motivational_agent, pc, op, prof, retry, genReqs,
                   motivCalls, mRetry, sent, batch, resp>>

Next ==
    \/ \E r \in Req : root(r)
    \/ \E r \in Req : health_check(r)
    \/ \E r \in Req, p \in Bodies : calculate_bmr_endpoint(r, p)
    \/ \E r \in Req, p \in ValidBodies : calculate_bmr_call(r, p)
    \/ \E r \in Req, p \in AnalyzeBodies : analyze_fitness(r, p)
    \/ \E r \in Req, o \in RawOutputs : ModelReturnsResult(r, o)
    \/ \E r \in Req : ModelCallsTool(r)
    \/ \E r \in Req, m \in TransportMessages : ModelTransportError(r, m)
    \/ \E r \in Req, b \in MotivationBatches : MotivationReturns(r, b)
    \/ \E r \in Req : MotivationInvalid(r)
    \/ \E r \in Req, m \in TransportMessages : MotivationTransportError(r, m)
    \/ \E r \in Req : Cancel(r)
    \/ \E r \in Req : Complete(r)
    \/ SetApiKey

Spec == Init /\ [][Next]_vars

----------------------------------------------------------------------------
(* The calculator and POST /bmr over a grid of inputs, one request at a time *)
(* (the test script's client), in slot 1.                                    *)

Ages == {12, 13, 25, 30, 120, 121}

Weights == {0, 1, 60, 70}

Heights == {-1, 1, 165, 175}

BmrGrid ==
    { Profile(a, w, h, g, lvl, "none") :
      a \in Ages, w \in Weights, h \in Heights, g \in Genders, lvl \in ActivityLevel }

NextBmr ==
    \/ pc[1] = "idle" /\ \E p \in BmrGrid : calculate_bmr_call(1, p)
    \/ pc[1] = "idle" /\ \E p \in BmrGrid : calculate_bmr_endpoint(1, p)
    \/ Complete(1)

SpecBmr == Init /\ [][NextBmr]_vars

----------------------------------------------------------------------------
(* The calculator in the arithmetic of the code: Python floats (IEEE 754     *)
(* binary64, round to nearest, ties to even).  A float is a sign and m * 2^e *)
(* with m a natural number of at most 53 bits; m is odd or the float is      *)
(* zero, so a value has one representation.  The integers of the model are   *)
(* too narrow for m: a natural number is written as the sequence of its      *)
(* digits in base 2^15, the least significant first, with no zero digit at   *)
(* the top.  Bits are counted from 1, the least significant.  Infinities,    *)
(* NaN, subnormal numbers and the sign of zero play no part for the          *)
(* magnitudes that occur (between 2^-20 and 2^20) and are left out.          *)

Base == 2^15

RECURSIVE NatOf(_)
\* The natural number n of the model, in digits.
NatOf(n) == IF n = 0 THEN <<>> ELSE <<n % Base>> \o NatOf(n \div Base)

RECURSIVE IntOf(_)
\* The digits a as an integer of the model (a small enough for one).
IntOf(a) == IF a = <<>> THEN 0 ELSE a[1] + Base * IntOf(Tail(a))

RECURSIVE Trim(_)
\* a without zero digits at the top.
Trim(a) ==
    IF a # <<>> /\ a[Len(a)] = 0 THEN Trim(SubSeq(a, 1, Len(a) - 1)) ELSE a

Digit(a, i) == IF i >= 1 /\ i <= Len(a) THEN a[i] ELSE 0

RECURSIVE AddFrom(_, _, _, _)
\* The digits from position i on of a + b, c being the carry into position i.
AddFrom(a, b, i, c) ==
    IF i > Len(a) /\ i > Len(b)
    THEN IF c > 0 THEN <<c>> ELSE <<>>
    ELSE LET t == Digit(a, i) + Digit(b, i) + c
         IN  <<t % Base>> \o AddFrom(a, b, i + 1, t \div Base)

NAdd(a, b) == AddFrom(a, b, 1, 0)

RECURSIVE SubFrom(_, _, _, _)
\* The digits from position i on of a - b (a >= b), c being the borrow.
SubFrom(a, b, i, c) ==
    IF i > Len(a)
    THEN <<>>
    ELSE LET t == Digit(a, i) - Digit(b, i) - c
         IN  <<t % Base>> \o SubFrom(a, b, i + 1, IF t < 0 THEN 1 ELSE 0)

NSub(a, b) == Trim(SubFrom(a, b, 1, 0))

RECURSIVE LessFrom(_, _, _)
\* a < b, the digits above position i being equal (a, b of one length).
LessFrom(a, b, i) ==
    IF i = 0 THEN FALSE
    ELSE IF a[i] # b[i] THEN a[i] < b[i]
    ELSE LessFrom(a, b, i - 1)

NLess(a, b) ==
    IF Len(a) # Len(b) THEN Len(a) < Len(b) ELSE LessFrom(a, b, Len(a))

RECURSIVE MulFrom(_, _, _, _)
\* The digits from position i on of a * d, for a digit d, c being the carry.
MulFrom(a, d, i, c) ==
    IF i > Len(a)
    THEN IF c > 0 THEN <<c>> ELSE <<>>
    ELSE LET t == a[i] * d + c
         IN  <<t % Base>> \o MulFrom(a, d, i + 1, t \div Base)

NMulDigit(a, d) == IF d = 0 THEN <<>> ELSE MulFrom(a, d, 1, 0)

RECURSIVE NMul(_, _)
\* a * b
NMul(a, b) ==
    IF a = <<>> \/ b = <<>> THEN <<>>
    ELSE NAdd(NMulDigit(a, b[1]), NMul(<<0>> \o a, Tail(b)))

\* a * 2^k
Shl(a, k) ==
    IF a = <<>> THEN <<>>
    ELSE [i \in 1..(k \div 15) |-> 0] \o NMulDigit(a, 2^(k % 15))

\* a divided by 2^k, the remainder dropped.
Shr(a, k) ==
    LET q == k \div 15
        r == k % 15
    IN  IF Len(a) <= q THEN <<>>
        ELSE Trim([i \in 1..(Len(a) - q) |->
                     (a[q + i] \div 2^r) + (Digit(a, q + i + 1) % 2^r) * 2^(15 - r)])

\* Bit i of a.
Bit(a, i) == (Digit(a, ((i - 1) \div 15) + 1) \div 2^((i - 1) % 15)) % 2

\* One of the bits 1..k of a is set.
LowBitsSet(a, k) ==
    \/ \E j \in 1..Len(a) : j <= k \div 15 /\ a[j] # 0
    \/ Digit(a, (k \div 15) + 1) % 2^(k % 15) # 0

\* The number of bits of a.
BitLen(a) ==
    IF a = <<>> THEN 0
    ELSE 15 * (Len(a) - 1)
         + (CHOOSE k \in 1..15 : 2^(k - 1) <= a[Len(a)] /\ a[Len(a)] < 2^k)

\* The number of zero bits at the bottom of a (a not zero).
LowZeros(a) ==
    LET j == CHOOSE i \in 1..Len(a) : a[i] # 0 /\ \A l \in 1..(i - 1) : a[l] = 0
    IN  15 * (j - 1)
        + (CHOOSE k \in 0..14 : a[j] % 2^k = 0 /\ a[j] % 2^(k + 1) # 0)

\* The float (-1)^neg * m * 2^e, for m of at most 53 significant bits.
F64(neg, m, e) ==
    LET t == Trim(m)
    IN  IF t = <<>>
        THEN [neg |-> FALSE, m |-> <<>>, e |-> 0]
        ELSE [neg |-> neg, m |-> Shr(t, LowZeros(t)), e |-> e + LowZeros(t)]

\* The float nearest to (-1)^neg * m * 2^e, ties to the even mantissa: the
\* result of every arithmetic operation.
Fl(neg, m, e) ==
    LET t == Trim(m)
        sh == BitLen(t) - 53
    IN  IF sh <= 0
        THEN F64(neg, t, e)
        ELSE LET q == Shr(t, sh)
                 up == Bit(t, sh) = 1 /\ (LowBitsSet(t, sh - 1) \/ Bit(q, 1) = 1)
             IN  F64(neg, IF up THEN NAdd(q, <<1>>) ELSE q, e + sh)

\* x + y
FAdd(x, y) ==
    IF x.m = <<>> THEN y
    ELSE IF y.m = <<>> THEN x
    ELSE LET e0 == IF x.e < y.e THEN x.e ELSE y.e
             a == Shl(x.m, x.e - e0)
             b == Shl(y.m, y.e - e0)
         IN  IF x.neg = y.neg THEN Fl(x.neg, NAdd(a, b), e0)
             ELSE IF NLess(a, b) THEN Fl(y.neg, NSub(b, a), e0)
             ELSE Fl(x.neg, NSub(a, b), e0)

\* x - y
FSub(x, y) == FAdd(x, F64(~y.neg, y.m, y.e))

\* x * y
FMul(x, y) == Fl(x.neg # y.neg, NMul(x.m, y.m), x.e + y.e)

\* float(n) of an integer n of the model.
FInt(n) == F64(n < 0, NatOf(IF n < 0 THEN -n ELSE n), 0)

\* x * k to the nearest integer, ties to the even one, computed exactly on the
\* value of the float: round(x, 0) for k = 1; round(x, 2), in 1/100, for
\* k = 100 (the float that round returns is the one nearest to that decimal,
\* and it is written as that decimal).
RoundHalfEven(x, k) ==
    LET n == NMulDigit(x.m, k)
        f == -x.e
        v == IF f <= 0
             THEN IntOf(Shl(n, -f))
             ELSE LET q == Shr(n, f)
                      up == Bit(n, f) = 1 /\ (LowBitsSet(n, f - 1) \/ Bit(q, 1) = 1)
                  IN  IntOf(q) + (IF up THEN 1 ELSE 0)
    IN  IF x.neg THEN -v ELSE v

RECURSIVE HexNat(_)
\* The natural number written in the hexadecimal digits h.
HexNat(h) ==
    IF h = <<>> THEN <<>>
    ELSE NAdd(NMulDigit(HexNat(SubSeq(h, 1, Len(h) - 1)), 16), NatOf(h[Len(h)]))

\* The float that float.hex() writes 0x1.ddddddddddddd p+x: h are the 14
\* digits, the leading 1 included.
HexFloat(h, x) == F64(FALSE, HexNat(h), x - 52)

\* The float literals of calculate_bmr: 6.25, and the multipliers 1.2, 1.375,
\* 1.55, 1.725 and 1.9 as the floats nearest to them.
F_6_25 == HexFloat(<<1, 9, 0, 0, 0, 0, 0, 0, 0, 0, 0, 0, 0, 0>>, 2)

activity_multipliers_f64 ==
    [sedentary |-> HexFloat(<<1, 3, 3, 3, 3, 3, 3, 3, 3, 3, 3, 3, 3, 3>>, 0),
     lightly_active |-> HexFloat(<<1, 6, 0, 0, 0, 0, 0, 0, 0, 0, 0, 0, 0, 0>>, 0),
     moderately_active |->
         HexFloat(<<1, 8, 12, 12, 12, 12, 12, 12, 12, 12, 12, 12, 12, 13>>, 0),
     very_active |-> HexFloat(<<1, 11, 9, 9, 9, 9, 9, 9, 9, 9, 9, 9, 9, 10>>, 0),
     extremely_active |-> HexFloat(<<1, 14, 6, 6, 6, 6, 6, 6, 6, 6, 6, 6, 6, 6>>, 0)]

\* calculate_bmr(profile) on floats: weight and height are floats, age is an
\* int; the operations are those of the expression, from left to right.
calculate_bmr_f64(p) ==
    LET body == FSub(FAdd(FMul(FInt(10), p.weight), FMul(F_6_25, p.height)),
                     FInt(5 * p.age))
        bmr == IF Lower(p.gender) = STR_male
               THEN FAdd(body, FInt(5))
               ELSE FSub(body, FInt(161))
    IN  FMul(bmr, activity_multipliers_f64[p.activity_level])

\* The body of the 200 response of POST /bmr, bmr in 1/100 kcal.
BmrBody_f64(p) ==
    LET bmr == calculate_bmr_f64(p)
    IN  [bmr |-> RoundHalfEven(bmr, 100),
         daily_calories |-> RoundHalfEven(bmr, 1),
         weight_loss_calories |-> RoundHalfEven(FSub(bmr, FInt(CALORIE_DELTA)), 1),
         weight_gain_calories |-> RoundHalfEven(FAdd(bmr, FInt(CALORIE_DELTA)), 1),
         activity_level |-> p.activity_level]

\* x > 0
FPositive(x) == x.m # <<>> /\ ~x.neg

\* FitnessProfile's Field constraints on a body whose weight and height are
\* floats.
FitnessProfileValid_f64(p) ==
    /\ p.age >= AGE_MIN
    /\ p.age <= AGE_MAX
    /\ FPositive(p.weight)
    /\ FPositive(p.height)
    /\ p.activity_level \in ActivityLevel

\* The response of POST /bmr to body p; the table has a key for every level,
\* and float arithmetic does not raise.
BmrResponse_f64(p) ==
    IF ~FitnessProfileValid_f64(p)
    THEN UnprocessableResponse
    ELSE Response(200, "none", <<>>, BmrBody_f64(p), {"calculate_bmr"})

calculate_bmr_endpoint_f64(r, p) ==
    /\ Arrive(r, "bmr", p)
    /\ Finish(r, BmrResponse_f64(p))
    /\ UNCHANGED <<secrets, loop, st_fitness_agent, agent,
                   apiKey, fitness_agent, motivational_agent>>

\* POST /bmr over bodies whose weight is a float as the JSON parser delivers
\* it: 34.24999999999997 (0x1.11ffffffffffcp+5), 34.25, 70.0, 60.0, and 0.0,
\* which the validation rejects.
Weights_f64 ==
    { HexFloat(<<1, 1, 1, 15, 15, 15, 15, 15, 15, 15, 15, 15, 15, 12>>, 5),
      F64(FALSE, NatOf(137), -2), FInt(70), FInt(60), FInt(0) }

Heights_f64 == {FInt(175), FInt(165)}

Ages_f64 == {13, 30, 120}

FloatGrid ==
    { Profile(a, w, h, g, lvl, "none") :
      a \in Ages_f64, w \in Weights_f64, h \in Heights_f64, g \in Genders,
      lvl \in ActivityLevel }

NextFloat ==
    \/ pc[1] = "idle" /\ \E p \in FloatGrid : calculate_bmr_endpoint_f64(1, p)
    \/ Complete(1)

SpecFloat == Init /\ [][NextFloat]_vars

----------------------------------------------------------------------------
(* The report pipeline alone: concurrent POST /analyze with valid profiles,  *)
(* the API key set.  The client of slot 1 sends the male profile, the other  *)
(* clients the female one.  Every request to the backend is answered in the  *)
(* end: with an output, a tool call, a transport error or a timeout (which   *)
(* the HTTP client raises as a transport error); the event loop then resumes *)
(* the handler that waits on it.                                             *)

RunProfile(r) == IF r = 1 THEN MaleProfile ELSE FemaleProfile

\* The outputs of the backend: a valid one with a quote of the batch, a valid
\* one with a quote of its own, an invalid one.
RunOutputs == {GoodOutput, OwnQuoteOutput, MissingQuoteOutput}

InitRun == Init /\ apiKey

\* The backend answers the request that invocation r waits on.
BackendAnswers(r) ==
    \/ \E o \in RunOutputs : ModelReturnsResult(r, o)
    \/ ModelCallsTool(r)
    \/ ModelTransportError(r, MSG_connection)
    \/ \E b \in MotivationBatches : MotivationReturns(r, b)
    \/ MotivationInvalid(r)
    \/ MotivationTransportError(r, MSG_connection)

NextRun ==
    \/ \E r \in Req : analyze_fitness(r, RunProfile(r))
    \/ \E r \in Req : BackendAnswers(r)
    \/ \E r \in Req : Cancel(r)
    \/ \E r \in Req : Complete(r)

SpecRun == InitRun /\ [][NextRun]_vars /\ \A r \in Req : WF_vars(BackendAnswers(r))

----------------------------------------------------------------------------
(* The construction of the fitness agent, statement by statement.            *)
(*                                                                           *)
(* get_fitness_agent has the same text in workout_agent.py and in            *)
(* streamlit_app.py (which tests the key first): the global is assigned the  *)
(* new Agent, then the two decorators register add_user_fitness_data and     *)
(* get_motivation on it, then the global is returned.  What differs is who   *)
(* runs it.  In the service the caller is a coroutine on the event loop: it  *)
(* keeps the loop until it awaits, and get_fitness_agent awaits nothing.  In *)
(* the Streamlit app the caller is the thread of a script run; the threads   *)
(* of several runs interleave at any statement, but every script run         *)
(* executes the script in a module namespace of its own, so the statement    *)
(* "fitness_agent = None" at the top of the script gives each run its own    *)
(* global.                                                                   *)

MSG_key_not_found == <<"OpenAI API key not found">>

\* The Agent as its constructor returns it: the decorators have not run yet.
BareAgent ==
    [exists |-> TRUE, serial |-> 1, result_retries |-> result_retries,
     system_prompts |-> {"system_prompt"}, tools |-> {}]

\* get_openai_api_key(): st.secrets["OPENAI_API_KEY"], else the environment.
get_openai_api_key ==
    IF secrets # "none" THEN secrets ELSE IF apiKey THEN "set" ELSE "none"

\* check_api_key(): get_openai_api_key() is not None
check_api_key == get_openai_api_key # "none"

\* What the script shows when analyze_profile raised: the message in an error box.
StreamlitError(m) ==
    Response(0, "Exception", AnalyzeProfileDetail(m), NoBody, {"analyze_profile"})

\* What the script shows when analyze_profile returned o: the report's tabs.
StreamlitReport(o) == Response(0, "none", <<>>, o, {"analyze_profile"})

\* The page of a run whose analysis branch is not taken.
StreamlitPage == Response(0, "none", <<>>, NoBody, {})

\* One namespace for all the script runs of the Streamlit app.
Namespace_shared(s) == 1

\* The module namespace in which script run s executes the script: its own.
Namespace(s) == s

\* The global fitness_agent that the code of caller r reads.
GlobalOf(r) ==
    IF op[r] = "streamlit" THEN st_fitness_agent[Namespace(r)] ELSE fitness_agent

\* The code of caller r assigns its global fitness_agent.
SetGlobal(r, a) ==
    IF op[r] = "streamlit"
    THEN /\ st_fitness_agent' = [st_fitness_agent EXCEPT ![Namespace(r)] = a]
         /\ UNCHANGED fitness_agent
    ELSE /\ fitness_agent' = a
         /\ UNCHANGED st_fitness_agent

\* Caller r can take its next step: a thread always, a coroutine when it has
\* the event loop.
Scheduled(r) == op[r] = "streamlit" \/ loop = r

\* The coroutine of r suspends or ends: the event loop is free.
Yield(r) == loop' = IF loop = r THEN 0 ELSE loop

\* The construction raises: in the Streamlit app the ValueError of the key
\* test ("if not api_key"), in the service the error of the OpenAI client.
ConstructionRaises(r) ==
    IF op[r] = "streamlit" THEN get_openai_api_key # "set" ELSE AgentConstructionRaises

\* What the caller of analyze_profile makes of the construction's exception.
ConstructionFailure(r) ==
    IF op[r] = "streamlit"
    THEN StreamlitError(MSG_key_not_found)
    ELSE AnalyzeErrorResponse(MSG_no_api_key)

\* POST /analyze arrives with a valid body: the handler gets the event loop,
\* analyze_fitness calls analyze_profile, which calls get_fitness_agent.
analyze_fitness_starts(r, p) ==
    /\ loop = 0
    /\ FitnessProfileValid(p)
    /\ Arrive(r, "analyze", p)
    /\ pc' = [pc EXCEPT ![r] = "get"]
    /\ loop' = r
    /\ agent' = [agent EXCEPT ![r] = NoneAgent]
    /\ UNCHANGED <<secrets, st_fitness_agent, apiKey, fitness_agent, motivational_agent,
                   retry, genReqs, motivCalls, mRetry, sent, batch, resp>>

\* A script run of the Streamlit app with the analysis button pressed: the
\* script's top level sets its global to None; main() takes the analysis
\* branch only when check_api_key() holds.
script_run(s, p) ==
    /\ FitnessProfileValid(p)
    /\ Arrive(s, "streamlit", p)
    /\ st_fitness_agent' = [st_fitness_agent EXCEPT ![Namespace(s)] = NoneAgent]
    /\ agent' = [agent EXCEPT ![s] = NoneAgent]
    /\ IF check_api_key
       THEN /\ pc' = [pc EXCEPT ![s] = "get"]
            /\ UNCHANGED <<retry, genReqs, motivCalls, mRetry, sent, batch, resp>>
       ELSE Finish(s, StreamlitPage)
    /\ UNCHANGED <<secrets, loop, apiKey, fitness_agent, motivational_agent>>

\* A construction that suspends after the assignment of the global (an await
\* between the assignment and the decorators).
get_fitness_agent_construct_suspending(r) ==
    /\ pc[r] = "get"
    /\ Scheduled(r)
    /\ IF GlobalOf(r) # NoneAgent
       THEN /\ pc' = [pc EXCEPT ![r] = "return"]
            /\ UNCHANGED <<fitness_agent, st_fitness_agent, loop, resp, retry, genReqs,
                           motivCalls, mRetry, sent, batch>>
       ELSE IF ConstructionRaises(r)
       THEN /\ Finish(r, ConstructionFailure(r))
            /\ Yield(r)
            /\ UNCHANGED <<fitness_agent, st_fitness_agent>>
       ELSE /\ SetGlobal(r, BareAgent)
            /\ pc' = [pc EXCEPT ![r] = "assigned"]
            /\ Yield(r)
            /\ UNCHANGED <<resp, retry, genReqs, motivCalls, mRetry, sent, batch>>
    /\ UNCHANGED <<secrets, apiKey, motivational_agent, op, prof, agent>>

\* A construction that assigns the global before the constructor has
\* succeeded, and leaves it assigned when the constructor raises.
get_fitness_agent_construct_early(r) ==
    /\ pc[r] = "get"
    /\ Scheduled(r)
    /\ IF GlobalOf(r) # NoneAgent
       THEN /\ pc' = [pc EXCEPT ![r] = "return"]
            /\ UNCHANGED <<fitness_agent, st_fitness_agent, loop, resp, retry, genReqs,
                           motivCalls, mRetry, sent, batch>>
       ELSE IF ConstructionRaises(r)
       THEN /\ Finish(r, ConstructionFailure(r))
            /\ Yield(r)
            /\ SetGlobal(r, BareAgent)
       ELSE /\ SetGlobal(r, BareAgent)
            /\ pc' = [pc EXCEPT ![r] = "assigned"]
            /\ UNCHANGED <<loop, resp, retry, genReqs, motivCalls, mRetry, sent, batch>>
    /\ UNCHANGED <<secrets, apiKey, motivational_agent, op, prof, agent>>

\* get_fitness_agent up to the assignment: "if fitness_agent is None"; when it
\* is, the key test of the Streamlit app and Agent(...), either of which may
\* raise, and then the assignment of the global.  An exception leaves
\* get_fitness_agent and analyze_profile and reaches the caller.
get_fitness_agent_construct(r) ==
    /\ pc[r] = "get"
    /\ Scheduled(r)
    /\ IF GlobalOf(r) # NoneAgent
       THEN /\ pc' = [pc EXCEPT ![r] = "return"]
            /\ UNCHANGED <<fitness_agent, st_fitness_agent, loop, resp, retry, genReqs,
                           motivCalls, mRetry, sent, batch>>
       ELSE IF ConstructionRaises(r)
       THEN /\ Finish(r, ConstructionFailure(r))
            /\ Yield(r)
            /\ UNCHANGED <<fitness_agent, st_fitness_agent>>
       ELSE /\ SetGlobal(r, BareAgent)
            /\ pc' = [pc EXCEPT ![r] = "assigned"]
            /\ UNCHANGED <<loop, resp, retry, genReqs, motivCalls, mRetry, sent, batch>>
    /\ UNCHANGED <<secrets, apiKey, motivational_agent, op, prof, agent>>

\* @fitness_agent.system_prompt: add_user_fitness_data is registered.
register_system_prompt(r) ==
    /\ pc[r] = "assigned"
    /\ Scheduled(r)
    /\ SetGlobal(r, [GlobalOf(r) EXCEPT
                       !.system_prompts = @ \cup {"add_user_fitness_data"}])
    /\ pc' = [pc EXCEPT ![r] = "prompted"]
    /\ UNCHANGED <<secrets, loop, apiKey, motivational_agent, op, prof, agent, resp,
                   retry, genReqs, motivCalls, mRetry, sent, batch>>

\* @fitness_agent.tool: get_motivation is registered.
register_tool(r) ==
    /\ pc[r] = "prompted"
    /\ Scheduled(r)
    /\ SetGlobal(r, [GlobalOf(r) EXCEPT !.tools = @ \cup {"get_motivation"}])
    /\ pc' = [pc EXCEPT ![r] = "return"]
    /\ UNCHANGED <<secrets, loop, apiKey, motivational_agent, op, prof, agent, resp,
                   retry, genReqs, motivCalls, mRetry, sent, batch>>

\* "return fitness_agent": analyze_profile has the handle in its local agent
\* and starts agent.run, which sends its first request and suspends.
get_fitness_agent_return(r) ==
    /\ pc[r] = "return"
    /\ Scheduled(r)
    /\ agent' = [agent EXCEPT ![r] = GlobalOf(r)]
    /\ pc' = [pc EXCEPT ![r] = "generating"]
    /\ genReqs' = [genReqs EXCEPT ![r] = 1]
    /\ sent' = [sent EXCEPT ![r] = FitnessRequest(prof[r])]
    /\ Yield(r)
    /\ UNCHANGED <<secrets, st_fitness_agent, apiKey, fitness_agent, motivational_agent,
                   op, prof, resp, retry, motivCalls, mRetry, batch>>

\* The run of a script run ends: asyncio.run returns the report or raises, and
\* the script shows the one or the other.
script_run_ends(s, x) ==
    /\ op[s] = "streamlit"
    /\ pc[s] = "generating"
    /\ Finish(s, x)
    /\ UNCHANGED <<secrets, loop, st_fitness_agent, agent, apiKey, fitness_agent,
                   motivational_agent, op, prof>>

\* The entry OPENAI_API_KEY of Streamlit's secrets is set, emptied or removed.
SetSecrets(v) ==
    /\ secrets # v
    /\ secrets' = v
    /\ UNCHANGED <<loop, st_fitness_agent, agent, apiKey, fitness_agent,
                   motivational_agent, pc, op, prof, retry, genReqs, motivCalls, mRetry,
                   sent, batch, resp>>

SecretsValues == {"none", "empty", "set"}

\* The backend answers a request of the service: the handler that waits on it
\* gets the event loop and runs to its end.
ServiceRunEnds(r) ==
    /\ op[r] = "analyze"
    /\ loop = 0
    /\ \/ ModelReturnsResult(r, GoodOutput)
       \/ ModelTransportError(r, MSG_connection)

NextBuild ==
    \/ \E r \in Req : analyze_fitness_starts(r, RunProfile(r))
    \/ \E s \in Req : script_run(s, RunProfile(s))
    \/ \E r \in Req : get_fitness_agent_construct(r)
    \/ \E r \in Req : register_system_prompt(r)
    \/ \E r \in Req : register_tool(r)
    \/ \E r \in Req : get_fitness_agent_return(r)
    \/ \E r \in Req : ServiceRunEnds(r)
    \/ \E s \in Req :
          \E x \in {StreamlitReport(GoodOutput), StreamlitError(MSG_connection)} :
             script_run_ends(s, x)
    \/ \E r \in Req : Complete(r)
    \/ SetApiKey
    \/ \E v \in SecretsValues : SetSecrets(v)

SpecBuild == Init /\ [][NextBuild]_vars

----------------------------------------------------------------------------
(* Vocabulary of the properties *)

InFlight(r) == pc[r] \in {"generating", "motivating"}

AnalyzeDone(r) == op[r] = "analyze" /\ pc[r] = "done"

\* The detail of the 500 response that reports message m.
DetailOf(m) == <<"500: ", "Error analyzing profile: ">> \o m

RetriesExceededText(n) ==
    <<"Exceeded maximum retries (", ToString(n), ") for result validation">>

\* x reports that the fitness run exceeded its result retries.
IsValidationFailure(x) == x.status # 200 /\ x.detail = DetailOf(RetriesExceededText(3))

\* x reports a transport-level failure of a request to the backend.
IsTransportFailure(x) ==
    /\ x.status # 200
    /\ x.detail \in {DetailOf(<<"Connection error.">>), DetailOf(<<"Rate limit reached">>)}

\* x carries a report.
CarriesReport(x) == x.body # NoBody

\* x is a response sent to the caller: the caller did not abandon the request.
Answered(x) == x.exc # "CancelledError"

\* x reports that some run exceeded its result retries, whatever their number.
IsRetriesExceeded(x) ==
    /\ x.status # 200
    /\ Len(x.detail) > 2
    /\ x.detail[3] = "Exceeded maximum retries ("

\* In this step invocation r received an output that failed validation.
InvalidOutputStep(r) ==
    /\ pc[r] = "generating"
    /\ \/ retry'[r] = retry[r] + 1
       \/ pc'[r] = "done" /\ IsRetriesExceeded(resp'[r])

\* The attempt of invocation r that is under way: the first plus the retries.
Attempt(r) == retry[r] + 1

----------------------------------------------------------------------------
(* C1 *)

\* C1, as stated: the 3rd consecutive schema-invalid output of an invocation
\* ends it in a terminal validation failure; no 4th attempt is issued and no
\* report is returned.
C1_Original ==
    [][\A r \in Req :
         (InvalidOutputStep(r) /\ Attempt(r) = 3)
            => (pc'[r] = "done" /\ IsValidationFailure(resp'[r]))]_vars

\* C1, amended: result_retries=3 allows three retries after the first attempt.
\* An invocation is never in a 5th attempt; the 1st, 2nd and 3rd invalid output
\* each make the run send the next request; the 4th invalid output ends the
\* invocation with the HTTP 500 that reports the exceeded retries, with no
\* report and no further request.
C1_FourthFailureIsTerminal ==
    /\ [](\A r \in Req : InFlight(r) => Attempt(r) <= 4)
    /\ [][\A r \in Req :
            InvalidOutputStep(r) =>
               IF Attempt(r) <= 3
               THEN /\ pc'[r] = "generating"
                    /\ retry'[r] = retry[r] + 1
                    /\ genReqs'[r] = 1
                    /\ sent'[r].to = "fitness"
                    /\ resp'[r] = resp[r]
               ELSE /\ pc'[r] = "done"
                    /\ resp'[r].status = 500
                    /\ resp'[r].detail = DetailOf(RetriesExceededText(3))
                    /\ ~CarriesReport(resp'[r])
                    /\ genReqs'[r] = 0]_vars

\* An invocation has ended by exceeding the result retries.
C1_Witness == \E r \in Req : AnalyzeDone(r) /\ IsValidationFailure(resp[r])

----------------------------------------------------------------------------
(* C2 *)

\* C2, as stated: every report returned by /analyze has a non-empty workout
\* plan, nutrition plan, quote and recommendations list and non-negative daily
\* calories.
C2_ReturnedReportIsComplete ==
    \A r \in Req :
        (AnalyzeDone(r) /\ resp[r].status = 200) =>
            /\ Len(resp[r].body.workout_plan) > 0
            /\ Len(resp[r].body.nutrition_plan) > 0
            /\ resp[r].body.motivational_quote # ""
            /\ Len(resp[r].body.recommendations) > 0
            /\ resp[r].body.daily_calories >= 0

----------------------------------------------------------------------------
(* C3 *)

\* C3: a transport-level failure of a generation request, the first included,
\* ends the invocation at once with the failure's message, and the run never
\* sends a request again for it: a request of a running invocation is sent only
\* after an invalid output (a result retry) or after the tool returned.
C3_TransportFailureNotRetried ==
    /\ [][\A r \in Req :
            (InFlight(r) /\ pc'[r] = "generating"
                /\ (genReqs'[r] # genReqs[r] \/ retry'[r] # retry[r])) =>
               \/ pc[r] = "generating" /\ retry'[r] = retry[r] + 1 /\ genReqs'[r] = 1
               \/ pc[r] = "motivating" /\ genReqs'[r] = genReqs[r] + 1
                     /\ retry'[r] = retry[r]]_vars
    /\ [][\A r \in Req :
            (InFlight(r) /\ pc'[r] = "done" /\ IsTransportFailure(resp'[r])) =>
               /\ resp'[r].status = 500
               /\ ~CarriesReport(resp'[r])
               /\ genReqs'[r] = 0
               /\ retry'[r] = 0]_vars
    /\ [](\A r \in Req :
            (pc[r] = "generating" /\ genReqs[r] = 1) => motivCalls[r] = 0)

\* An invocation has ended on a transport failure.
C3_Witness == \E r \in Req : AnalyzeDone(r) /\ IsTransportFailure(resp[r])

----------------------------------------------------------------------------
(* C4 *)

\* The kind of an error response: the exception class and the status.
Kind(x) == <<x.exc, x.status>>

\* C4, as stated: a transport failure is reported as a kind distinct from the
\* kind reported when the validation retries are exhausted.
C4_Original ==
    \A r1, r2 \in Req :
        (AnalyzeDone(r1) /\ AnalyzeDone(r2)
            /\ IsTransportFailure(resp[r1]) /\ IsValidationFailure(resp[r2]))
        => Kind(resp[r1]) # Kind(resp[r2])

\* C4, amended: every failed invocation with a valid profile that is answered
\* (its caller has not abandoned it) surfaces one
\* HTTPException of status 500 whatever the cause; a transport failure and an
\* exhausted retry budget have the same kind and differ in the message only.
C4_OneKindMessageDiffers ==
    /\ \A r \in Req :
          (AnalyzeDone(r) /\ Answered(resp[r]) /\ resp[r].status \notin {200, 422}) =>
             /\ Kind(resp[r]) = <<"HTTPException", 500>>
             /\ ~CarriesReport(resp[r])
             /\ Len(resp[r].detail) > 2
             /\ SubSeq(resp[r].detail, 1, 2) = <<"500: ", "Error analyzing profile: ">>
    /\ \A r1, r2 \in Req :
          (AnalyzeDone(r1) /\ AnalyzeDone(r2)
              /\ IsTransportFailure(resp[r1]) /\ IsValidationFailure(resp[r2]))
          => (Kind(resp[r1]) = Kind(resp[r2]) /\ resp[r1].detail # resp[r2].detail)

\* One invocation has ended on a transport failure and another on exhausted
\* retries.
C4_Witness ==
    \E r1, r2 \in Req :
        /\ AnalyzeDone(r1) /\ AnalyzeDone(r2)
        /\ IsTransportFailure(resp[r1]) /\ IsValidationFailure(resp[r2])

----------------------------------------------------------------------------
(* C5 *)

\* The profile breaks a numeric bound of the Profile model.
OutOfBounds(p) == p.age < 13 \/ p.age > 120 \/ p.weight <= 0 \/ p.height <= 0

\* C5: a body with age outside [13,120], weight <= 0 or height <= 0 sent to
\* POST /analyze or POST /bmr is rejected before the handler runs: the request
\* ends at once with a 422 and no body, calculate_bmr is not called, no agent is
\* constructed, and it never has a generation request under way.
C5_RejectedBeforeUse ==
    /\ [](\A r \in Req :
            (op[r] \in {"analyze", "bmr"} /\ OutOfBounds(prof[r])) =>
               /\ pc[r] = "done"
               /\ resp[r].status = 422
               /\ resp[r].body = NoBody
               /\ resp[r].calls = {}
               /\ genReqs[r] = 0)
    /\ [][\A r \in Req :
            (pc[r] = "idle" /\ op'[r] \in {"analyze", "bmr"} /\ OutOfBounds(prof'[r])) =>
               /\ fitness_agent' = fitness_agent
               /\ motivational_agent' = motivational_agent
               /\ genReqs' = genReqs]_vars

\* /analyze has rejected an out-of-bounds body while no agent exists.
C5_Witness ==
    \E r \in Req :
        /\ AnalyzeDone(r) /\ OutOfBounds(prof[r])
        /\ resp[r].status = 422
        /\ apiKey /\ fitness_agent = NoneAgent

----------------------------------------------------------------------------
(* C6 *)

\* The messages a failed /analyze can report.
KnownMessages ==
    { <<"The api_key client option must be set">>,
      RetriesExceededText(3), RetriesExceededText(1),
      <<"Connection error.">>, <<"Rate limit reached">> }

\* The output has every field of the report, with valid exercises and meals.
IsSchemaValidReport(o) ==
    /\ o \in RawOutputs
    /\ o.fields = ReportFields
    /\ \A i \in 1..Len(o.workout_plan) :
          o.workout_plan[i].sets >= 1 /\ o.workout_plan[i].reps >= 1
             /\ o.workout_plan[i].rest_time >= 0
    /\ \A i \in 1..Len(o.nutrition_plan) :
          o.nutrition_plan[i].calories >= 0 /\ o.nutrition_plan[i].protein >= 0
             /\ o.nutrition_plan[i].carbs >= 0 /\ o.nutrition_plan[i].fats >= 0

IsErrorWithMessage(x) ==
    /\ x.status = 500
    /\ ~CarriesReport(x)
    /\ \E m \in KnownMessages : x.detail = DetailOf(m)

\* C6: POST /analyze with a valid profile answers either 200 with the validated
\* report that the run returned, or 500 with a message and no report; an
\* exhausted retry budget, a transport failure, a failed agent construction and
\* a failed motivation step each give the 500.
C6_FailureIs500 ==
    /\ [](\A r \in Req :
            (AnalyzeDone(r) /\ Answered(resp[r]) /\ ~OutOfBounds(prof[r])) =>
               \/ resp[r].status = 200 /\ resp[r].detail = <<>>
                     /\ IsSchemaValidReport(resp[r].body)
               \/ IsErrorWithMessage(resp[r]))
    /\ [][\A r \in Req :
            (pc[r] = "motivating" /\ pc'[r] = "done" /\ Answered(resp'[r]))
               => IsErrorWithMessage(resp'[r])]_vars
    /\ [][\A r \in Req :
            (pc[r] = "idle" /\ op'[r] = "analyze" /\ pc'[r] = "done"
                /\ ~OutOfBounds(prof'[r])) =>
               (~apiKey /\ resp'[r].status = 500
                   /\ resp'[r].detail = DetailOf(<<"The api_key client option must be set">>))]_vars

\* One /analyze has answered 200 with a report and another 500.
C6_Witness ==
    \E r1, r2 \in Req :
        /\ AnalyzeDone(r1) /\ resp[r1].status = 200 /\ CarriesReport(resp[r1])
        /\ AnalyzeDone(r2) /\ resp[r2].status = 500 /\ ~OutOfBounds(prof[r2])

----------------------------------------------------------------------------
(* C7 *)

\* C7: every response of GET /health is 200 with status "healthy" and service
\* "workout-agent", whatever the API key, the agents and the other requests.
C7_HealthAlwaysHealthy ==
    \A r \in Req :
        op[r] = "health" =>
            /\ pc[r] = "done"
            /\ resp[r].status = 200
            /\ resp[r].body = [status |-> "healthy", service |-> "workout-agent"]

\* /health has answered with no API key set while an /analyze is under way.
C7_Witness ==
    \E r1, r2 \in Req :
        /\ op[r1] = "health" /\ pc[r1] = "done"
        /\ pc[r2] = "generating"
        /\ ~apiKey

----------------------------------------------------------------------------
(* C8 *)

\* The gender is "male" in some mix of upper and lower case.
IsMaleAnyCase(g) ==
    /\ Len(g) = 4
    /\ g[1] \in {"m", "M"} /\ g[2] \in {"a", "A"}
    /\ g[3] \in {"l", "L"} /\ g[4] \in {"e", "E"}

\* The multiplier of the activity level, in 1/1000.
Multiplier1000(lvl) ==
    CASE lvl = "sedentary" -> 1200
      [] lvl = "lightly_active" -> 1375
      [] lvl = "moderately_active" -> 1550
      [] lvl = "very_active" -> 1725
      [] lvl = "extremely_active" -> 1900

\* (10*weight + 6.25*height - 5*age + c) * m, in 1/100000 kcal.
MifflinStJeor(p) ==
    (1000 * p.weight + 625 * p.height - 500 * p.age
        + (IF IsMaleAnyCase(p.gender) THEN 500 ELSE -16100))
    * Multiplier1000(p.activity_level)

\* C8: for every valid profile calculate_bmr returns
\* (10*weight + 6.25*height - 5*age + c) * m with c = 5 for "male" in any case
\* and -161 for every other gender, m the multiplier of the activity level;
\* 30 y, 70 kg, 175 cm, male, moderately_active gives 2555.5625.
C8_BmrFormula ==
    \A r \in Req :
        (op[r] = "calculate_bmr" /\ pc[r] = "done" /\ ~OutOfBounds(prof[r])) =>
            /\ resp[r].exc = "none"
            /\ 625 * resp[r].body.value = MifflinStJeor(prof[r])
            /\ (prof[r] = Profile(30, 70, 175, <<"m", "a", "l", "e">>,
                                  "moderately_active", "none")
                  => 1000 * resp[r].body.value = 25555625 * 16)

\* calculate_bmr has returned for a profile whose gender is "MALE".
C8_Witness ==
    \E r \in Req :
        /\ op[r] = "calculate_bmr" /\ pc[r] = "done"
        /\ prof[r].gender = <<"M", "A", "L", "E">>
        /\ resp[r].exc = "none"

----------------------------------------------------------------------------
(* C9 *)

Abs(x) == IF x < 0 THEN -x ELSE x

\* i is an integer nearest to n/d.
IsNearest(i, n, d) == 2 * Abs(n - i * d) <= d

\* C9: a 200 response of POST /bmr carries bmr as calculate_bmr rounded to 2
\* decimals, daily_calories, weight_loss_calories and weight_gain_calories as
\* calculate_bmr, calculate_bmr - 500 and calculate_bmr + 500 rounded to whole
\* numbers, and the activity level; the male example gives 2555.56, 2556, 2056
\* and 3056.
C9_BmrResponseRounded ==
    \A r \in Req :
        (op[r] = "bmr" /\ pc[r] = "done" /\ ~OutOfBounds(prof[r])) =>
            LET v == calculate_bmr(prof[r])
                b == resp[r].body
            IN  /\ resp[r].status = 200
                /\ IsNearest(b.bmr, 100 * v, 160)
                /\ IsNearest(b.daily_calories, v, 160)
                /\ IsNearest(b.weight_loss_calories, v - 500 * 160, 160)
                /\ IsNearest(b.weight_gain_calories, v + 500 * 160, 160)
                /\ b.activity_level = prof[r].activity_level
                /\ (prof[r] = Profile(30, 70, 175, <<"m", "a", "l", "e">>,
                                      "moderately_active", "none")
                      => b = [bmr |-> 255556, daily_calories |-> 2556,
                              weight_loss_calories |-> 2056,
                              weight_gain_calories |-> 3056,
                              activity_level |-> "moderately_active"])

\* POST /bmr has answered the male example.
C9_Witness ==
    \E r \in Req :
        /\ op[r] = "bmr" /\ pc[r] = "done" /\ resp[r].status = 200
        /\ prof[r] = Profile(30, 70, 175, <<"m", "a", "l", "e">>,
                             "moderately_active", "none")

----------------------------------------------------------------------------
(* C10 *)

\* C10: GET /, GET /health and POST /bmr are answered in one step that leaves
\* both agent globals as they are and sends no generation request, and answer
\* 200 (POST /bmr: for a valid profile) with or without an API key.
C10_NoBackendNeeded ==
    /\ [][\A r \in Req :
            (pc[r] = "idle" /\ op'[r] \in {"root", "health", "bmr"}) =>
               /\ fitness_agent' = fitness_agent
               /\ motivational_agent' = motivational_agent
               /\ genReqs' = genReqs
               /\ pc'[r] = "done"
               /\ (op'[r] = "bmr" /\ OutOfBounds(prof'[r])) \/ resp'[r].status = 200]_vars
    /\ [](\A r \in Req : op[r] \in {"root", "health", "bmr"} => ~InFlight(r))

\* POST /bmr has answered 200 with no API key set and no agent constructed.
C10_Witness ==
    \E r \in Req :
        /\ op[r] = "bmr" /\ pc[r] = "done" /\ resp[r].status = 200
        /\ ~apiKey /\ fitness_agent = NoneAgent /\ motivational_agent = NoneAgent

----------------------------------------------------------------------------
(* C11 *)

\* C11: calculate_bmr is total on validated profiles.  Every ActivityLevel has
\* its multiplier; for every profile inside the bounds, with any gender string
\* and any activity level, calculate_bmr returns a number and raises nothing,
\* and POST /bmr answers 200 with the five figures, never through its handler
\* for exceptions (the HTTP 500).
C11_BmrTotal ==
    /\ \A lvl \in ActivityLevel : lvl \in DOMAIN activity_multipliers
    /\ \A r \in Req :
          (pc[r] = "done" /\ ~OutOfBounds(prof[r])) =>
             /\ op[r] = "calculate_bmr" =>
                   /\ resp[r].exc = "none"
                   /\ resp[r].body # NoBody
                   /\ resp[r].body.value \in Int
             /\ op[r] = "bmr" =>
                   /\ resp[r].status = 200
                   /\ resp[r].exc = "none"
                   /\ resp[r].body # NoBody
                   /\ resp[r].body.bmr \in Int
                   /\ resp[r].body.daily_calories \in Int

\* POST /bmr has answered 200 for the oldest, lightest, shortest profile, with
\* an empty gender and the last activity level.
C11_Witness ==
    \E r \in Req :
        /\ op[r] = "bmr" /\ pc[r] = "done" /\ resp[r].status = 200
        /\ prof[r].age = 120 /\ prof[r].weight = 1 /\ prof[r].height = 1
        /\ prof[r].gender = <<>>
        /\ prof[r].activity_level = "extremely_active"

----------------------------------------------------------------------------
(* C12 *)

\* r holds the result of a direct call of calculate_bmr.
CalculatorDone(r) == op[r] = "calculate_bmr" /\ pc[r] = "done"

----------------------------------------------------------------------------
(* C13 *)

\* In this step the backend answered invocation r's request with the final
\* output o.
ReceivesOutput(r, o) == pc[r] = "generating" /\ ModelReturnsResult(r, o)

\* C13, as stated: an invocation makes between 1 and 3 top-level attempts.
C13_Original == \A r \in Req : InFlight(r) => Attempt(r) \in 1..3

\* C13, amended: within one invocation a further top-level attempt is issued
\* only after the preceding attempt's output failed schema validation; the
\* first schema-valid output is returned, as it is, and ends the invocation, so
\* the run never asks again after a valid output; an invocation makes between
\* 1 and 4 top-level attempts (the first and the 3 retries of result_retries).
C13_RetryOnlyAfterInvalid ==
    /\ [](\A r \in Req : InFlight(r) => Attempt(r) \in 1..4)
    /\ [][\A r \in Req : \A o \in RawOutputs :
            ReceivesOutput(r, o) =>
               IF IsSchemaValidReport(o)
               THEN /\ pc'[r] = "done"
                    /\ resp'[r].status = 200
                    /\ resp'[r].body = o
                    /\ sent'[r].to = "none"
               ELSE /\ ~CarriesReport(resp'[r])
                    /\ \/ Attempt(r) <= 3 /\ pc'[r] = "generating"
                             /\ retry'[r] = retry[r] + 1
                       \/ Attempt(r) = 4 /\ pc'[r] = "done"]_vars
    /\ [][\A r \in Req :
            (InFlight(r) /\ retry'[r] # retry[r] /\ pc'[r] # "done") =>
               /\ pc[r] = "generating"
               /\ retry'[r] = retry[r] + 1
               /\ \E o \in RawOutputs : ReceivesOutput(r, o) /\ ~IsSchemaValidReport(o)]_vars

\* An invocation is in its 4th attempt.
C13_Witness == \E r \in Req : pc[r] = "generating" /\ Attempt(r) = 4

----------------------------------------------------------------------------
(* C14 *)

\* C14: under any interleaving of concurrent invocations each process-wide
\* handle is constructed at most once (it is None or the one agent of the first
\* construction, with its system prompts and its tool), every invocation under
\* way runs on that handle, the handle is constructed only by an arriving
\* /analyze (fitness) or by the motivation step (motivational), and once a
\* global holds a handle no step changes the global or the handle.
C14_HandlesBuiltOnce ==
    /\ [](fitness_agent \in {NoneAgent, FitnessAgent})
    /\ [](motivational_agent \in {NoneAgent, MotivationalAgent})
    /\ [](\A r \in Req :
            /\ InFlight(r) => fitness_agent = FitnessAgent
            /\ pc[r] = "motivating" => motivational_agent = MotivationalAgent)
    /\ [][fitness_agent # NoneAgent => fitness_agent' = fitness_agent]_vars
    /\ [][motivational_agent # NoneAgent => motivational_agent' = motivational_agent]_vars
    /\ [][fitness_agent' # fitness_agent =>
            \E r \in Req : pc[r] = "idle" /\ op'[r] = "analyze" /\ pc'[r] = "generating"]_vars
    /\ [][motivational_agent' # motivational_agent =>
            \E r \in Req : pc[r] = "generating" /\ pc'[r] = "motivating"]_vars

\* Two invocations run at once on the handles, one of them in the motivation
\* step, after the API key has been taken away.
C14_Witness ==
    \E r1, r2 \in Req :
        /\ pc[r1] = "generating" /\ retry[r1] > 0
        /\ pc[r2] = "motivating"
        /\ fitness_agent = FitnessAgent /\ motivational_agent = MotivationalAgent
        /\ ~apiKey

----------------------------------------------------------------------------
(* C15 *)

\* The profile fields that the request carries: those of the system prompt of
\* a request to the fitness model, those of the prompt of a request to the
\* motivational model (age, gender, activity level, goals).
CarriesFieldsOf(q, p) ==
    IF q.to = "fitness"
    THEN /\ q.context.age = p.age /\ q.context.weight = p.weight
         /\ q.context.height = p.height /\ q.context.gender = p.gender
         /\ q.context.activity_level = p.activity_level
         /\ q.context.fitness_goals = p.fitness_goals
    ELSE /\ q.prompt.age = p.age /\ q.prompt.gender = p.gender
         /\ q.prompt.activity_level = p.activity_level
         /\ q.prompt.goals = (IF p.fitness_goals = "none"
                              THEN "general fitness improvement"
                              ELSE p.fitness_goals)

\* Some profile field that the request carries has the value it has in p.
SharesFieldWith(q, p) ==
    IF q.to = "fitness"
    THEN \/ q.context.age = p.age \/ q.context.weight = p.weight
         \/ q.context.height = p.height \/ q.context.gender = p.gender
         \/ q.context.activity_level = p.activity_level
         \/ q.context.fitness_goals = p.fitness_goals
    ELSE \/ q.prompt.age = p.age \/ q.prompt.gender = p.gender
         \/ q.prompt.activity_level = p.activity_level
         \/ q.prompt.goals = p.fitness_goals

\* The two profiles differ in every field.
DifferEverywhere(p1, p2) ==
    /\ p1.age # p2.age /\ p1.weight # p2.weight /\ p1.height # p2.height
    /\ p1.gender # p2.gender /\ p1.activity_level # p2.activity_level
    /\ p1.fitness_goals # p2.fitness_goals

\* C15: every request that an invocation has under way, in the first attempt
\* and in every retry, to the fitness model and to the motivational model,
\* carries the fields of the profile of that invocation; when invocations with
\* different profiles run at once on the shared handles, a request of one
\* carries no field of the other's profile.
C15_ContextIsOwnProfile ==
    /\ \A r \in Req :
          InFlight(r) =>
             /\ sent[r].to = (IF pc[r] = "generating" THEN "fitness" ELSE "motivational")
             /\ CarriesFieldsOf(sent[r], prof[r])
    /\ \A r1, r2 \in Req :
          (InFlight(r1) /\ InFlight(r2) /\ DifferEverywhere(prof[r1], prof[r2]))
             => ~SharesFieldWith(sent[r1], prof[r2])

\* The male profile's invocation waits on its motivation request while the
\* female profile's invocation waits on the request of a retry.
C15_Witness ==
    \E r1, r2 \in Req :
        /\ pc[r1] = "motivating" /\ prof[r1].age = 30
        /\ pc[r2] = "generating" /\ retry[r2] > 0 /\ prof[r2].age = 25
        /\ motivCalls[r2] > 0

----------------------------------------------------------------------------
(* C16 *)

\* The requests that the motivation step of invocation r has sent so far.
MotivationRequests(r) == mRetry[r] + 1

\* C16, as stated: an invocation of the motivation step issues exactly one
\* request and never retries.
C16_Original == \A r \in Req : pc[r] = "motivating" => MotivationRequests(r) = 1

\* C16, amended: an invocation of the motivation step issues one or two
\* requests.  A transport failure of a request is not retried; an output that
\* is no sequence of strings is answered once by the same request sent again
\* (the one result retry the agent has by the library's default), and a second
\* such output ends the step.  Every failure of the step ends the whole
\* invocation with the HTTP 500 that carries the failure's message: it is
\* neither retried by the orchestrator nor swallowed, and no report is returned.
C16_MotivationRetriesOnce ==
    /\ [](\A r \in Req : pc[r] = "motivating" => MotivationRequests(r) \in 1..2)
    /\ [][\A r \in Req :
            (pc[r] = "motivating" /\ mRetry'[r] # mRetry[r] /\ pc'[r] = "motivating") =>
               /\ MotivationRequests(r) = 1
               /\ mRetry'[r] = 1
               /\ sent'[r] = sent[r]
               /\ retry'[r] = retry[r] /\ motivCalls'[r] = motivCalls[r]]_vars
    /\ [][\A r \in Req :
            MotivationInvalid(r) =>
               IF MotivationRequests(r) = 1
               THEN pc'[r] = "motivating" /\ mRetry'[r] = 1
               ELSE /\ pc'[r] = "done" /\ resp'[r].status = 500
                    /\ resp'[r].detail = DetailOf(RetriesExceededText(1))
                    /\ ~CarriesReport(resp'[r])]_vars
    /\ [][\A r \in Req :
            (pc[r] = "motivating" /\ pc'[r] = "done" /\ Answered(resp'[r])) =>
               /\ resp'[r].status = 500
               /\ ~CarriesReport(resp'[r])
               /\ resp'[r].detail \in {DetailOf(RetriesExceededText(1)),
                                      DetailOf(<<"Connection error.">>),
                                      DetailOf(<<"Rate limit reached">>)}
               /\ (IsTransportFailure(resp'[r]) \/ MotivationRequests(r) = 2)]_vars

\* An invocation has ended because its motivation step exceeded its retry.
C16_Witness ==
    \E r \in Req :
        /\ AnalyzeDone(r) /\ resp[r].status = 500
        /\ resp[r].detail = DetailOf(RetriesExceededText(1))

----------------------------------------------------------------------------
(* C17 *)

\* q is one of the phrases of the batch b.
IsPhraseOf(q, b) == \E i \in 1..Len(b) : b[i] = q

\* C17, as stated: whenever the motivation step was invoked during the attempt
\* that produced the returned report, the report's motivational_quote is one of
\* the phrases of the batch that the step returned, and it is not empty.
C17_QuoteFromBatch ==
    [][\A r \in Req :
         (pc[r] = "generating" /\ motivCalls[r] > 0
             /\ pc'[r] = "done" /\ resp'[r].status = 200) =>
            /\ IsPhraseOf(resp'[r].body.motivational_quote, batch[r])
            /\ resp'[r].body.motivational_quote # ""]_vars

----------------------------------------------------------------------------
(* C18 *)

\* C18, as stated: in each generation attempt the orchestrator performs zero or
\* one invocation of the motivation step, never more than one.
C18_AtMostOneMotivationPerAttempt == \A r \in Req : motivCalls[r] <= 1

----------------------------------------------------------------------------
(* C19 *)

\* x is the outcome "a report was returned".
ReturnsReport(x) ==
    x.status = 200 /\ x.exc = "none" /\ x.detail = <<>> /\ CarriesReport(x)

\* x is the outcome "an error was surfaced".
SurfacesError(x) == x.status # 200 /\ x.exc # "none" /\ ~CarriesReport(x)

ExactlyOneOutcome(x) ==
    /\ ReturnsReport(x) \/ SurfacesError(x)
    /\ ~(ReturnsReport(x) /\ SurfacesError(x))

----------------------------------------------------------------------------
(* C20 *)

\* x is the outcome of a request that its caller cancelled.
IsCancelled(x) == x.exc = "CancelledError"

\* Invocation r holds nothing of a run: no counter, no request, no batch.
HoldsNoRunState(r) ==
    /\ retry[r] = 0 /\ genReqs[r] = 0 /\ motivCalls[r] = 0 /\ mRetry[r] = 0
    /\ sent[r] = NoRequest /\ batch[r] = NoBatch

\* C20: an invocation cancelled while a request to the backend is under way
\* returns no report and no HTTP response at all.  A 500 is only ever made from
\* a failure of the run (exceeded retries, a transport error), never from the
\* cancellation; a report is only ever returned in the step that receives a
\* valid output; what the run had received before (the batch of a motivation
\* step, its counters) is gone with the run and is not there for the invocation
\* that comes next, which starts from nothing; the shared handles are left as
\* they are.
C20_CancelledReturnsNothing ==
    /\ [](\A r \in Req :
            (pc[r] = "done" /\ IsCancelled(resp[r])) =>
               /\ op[r] = "analyze"
               /\ resp[r].status = 0 /\ resp[r].detail = <<>>
               /\ ~CarriesReport(resp[r]))
    /\ [](\A r \in Req : pc[r] \in {"idle", "done"} => HoldsNoRunState(r))
    /\ [][\A r \in Req :
            (InFlight(r) /\ pc'[r] = "done" /\ resp'[r].status = 500) =>
               resp'[r].detail \in {DetailOf(RetriesExceededText(3)),
                                    DetailOf(RetriesExceededText(1)),
                                    DetailOf(<<"Connection error.">>),
                                    DetailOf(<<"Rate limit reached">>),
                                    DetailOf(<<"The api_key client option must be set">>)}]_vars
    /\ [][\A r \in Req :
            (InFlight(r) /\ pc'[r] = "done" /\ CarriesReport(resp'[r])) =>
               \E o \in RawOutputs :
                  ReceivesOutput(r, o) /\ IsSchemaValidReport(o) /\ resp'[r].body = o]_vars
    /\ [][\A r \in Req :
            (InFlight(r) /\ pc'[r] = "done" /\ IsCancelled(resp'[r])) =>
               /\ fitness_agent' = fitness_agent
               /\ motivational_agent' = motivational_agent
               /\ \A r2 \in Req \ {r} :
                     /\ pc'[r2] = pc[r2] /\ resp'[r2] = resp[r2]
                     /\ batch'[r2] = batch[r2] /\ sent'[r2] = sent[r2]]_vars
    /\ [][\A r \in Req :
            (pc[r] = "idle" /\ pc'[r] = "generating") =>
               /\ retry'[r] = 0 /\ motivCalls'[r] = 0 /\ mRetry'[r] = 0
               /\ batch'[r] = NoBatch
               /\ CarriesFieldsOf(sent'[r], prof'[r])]_vars

\* One invocation has been cancelled; another, in a retry, holds the batch of
\* its own motivation step.
C20_Witness ==
    \E r1, r2 \in Req :
        /\ AnalyzeDone(r1) /\ IsCancelled(resp[r1])
        /\ pc[r2] = "generating" /\ retry[r2] > 0 /\ batch[r2] # NoBatch

----------------------------------------------------------------------------
(* C21 *)

\* Both registrations are on the handle.
Registered(a) ==
    "add_user_fitness_data" \in a.system_prompts /\ "get_motivation" \in a.tools

\* The handle is assigned and a registration is still missing.
HalfBuilt(a) == a # NoneAgent /\ ~Registered(a)

\* In this step get_fitness_agent returns to invocation r.
Obtains(r) == pc[r] = "return" /\ pc'[r] = "generating"

\* Invocation r is inside get_fitness_agent.
InsideGetter(r) == pc[r] \in {"get", "assigned", "prompted", "return"}

\* C21: the global is assigned before the two registrations run, yet whenever
\* get_fitness_agent returns the handle to an invocation, the handle is the
\* global and carries add_user_fitness_data and get_motivation; every
\* invocation that runs has such a handle.  In the service, while the global is
\* half-built the handler that builds it has the event loop and no other
\* invocation is inside get_fitness_agent; in the Streamlit app a half-built
\* global is the global of the script run that is building it.
C21_HandleObtainedRegistered ==
    /\ [][\A r \in Req :
            Obtains(r) => (agent'[r] = GlobalOf(r) /\ Registered(agent'[r]))]_vars
    /\ [](\A r \in Req :
            /\ pc[r] = "generating" => Registered(agent[r])
            /\ pc[r] = "return" => Registered(GlobalOf(r)))
    /\ [](HalfBuilt(fitness_agent) =>
            /\ loop # 0
            /\ op[loop] = "analyze" /\ pc[loop] \in {"assigned", "prompted"}
            /\ \A r \in Req \ {loop} : op[r] = "analyze" => ~InsideGetter(r))
    /\ [](\A s \in Req :
            HalfBuilt(st_fitness_agent[s]) =>
               (op[s] = "streamlit" /\ pc[s] \in {"assigned", "prompted"}))

\* The service's global is assigned with no registration on it while a script
\* run of the Streamlit app, having obtained its handle, waits on its request.
C21_Witness ==
    \E r, s \in Req :
        /\ op[r] = "analyze" /\ pc[r] = "assigned" /\ fitness_agent = BareAgent
        /\ op[s] = "streamlit" /\ pc[s] = "generating" /\ Registered(agent[s])

----------------------------------------------------------------------------
(* C22 *)

\* In this step the construction of the handle fails for invocation r: the
\* exception leaves get_fitness_agent.
ConstructionFails(r) == pc[r] = "get" /\ pc'[r] = "done"

\* The key that the construction needs is there for caller r.
KeyUsable(r) ==
    IF op[r] = "streamlit"
    THEN secrets = "set" \/ (secrets = "none" /\ apiKey)
    ELSE apiKey

\* x shows the error of a failed construction and no report.
IsConstructionError(x, variant) ==
    /\ x.exc # "none"
    /\ x.status # 200
    /\ ~CarriesReport(x)
    /\ x.detail = (IF variant = "streamlit"
                   THEN <<"Error analyzing profile: ", "OpenAI API key not found">>
                   ELSE DetailOf(<<"The api_key client option must be set">>))

\* The handle is unset or complete.
UnsetOrComplete(a) == a = NoneAgent \/ (a = FitnessAgent /\ Registered(a))

\* C22: when the construction of the handle fails, the global is left unset,
\* the invocation obtains no handle and ends with the error (in the Streamlit
\* app the ValueError's message, in the service the HTTP 500), never with a
\* report; every invocation that finds the global unset attempts the
\* construction, and the attempt succeeds exactly when the key is there, also
\* after earlier failures; no failure leaves a half-built handle: whenever no
\* caller is between the assignment and the return, the global is unset or
\* complete, and so is every handle obtained.
C22_FailedConstructionLeavesUnset ==
    /\ [][\A r \in Req :
            ConstructionFails(r) =>
               /\ GlobalOf(r) = NoneAgent
               /\ ~KeyUsable(r)
               /\ fitness_agent' = fitness_agent
               /\ st_fitness_agent' = st_fitness_agent
               /\ agent'[r] = NoneAgent
               /\ IsConstructionError(resp'[r], op[r])]_vars
    /\ [][\A r \in Req :
            (pc[r] = "get" /\ pc'[r] # "get" /\ GlobalOf(r) = NoneAgent) =>
               IF KeyUsable(r)
               THEN /\ pc'[r] = "assigned"
                    /\ (IF op[r] = "streamlit"
                        THEN st_fitness_agent'[r] ELSE fitness_agent') = BareAgent
               ELSE pc'[r] = "done"]_vars
    /\ [](loop = 0 => UnsetOrComplete(fitness_agent))
    /\ [](\A s \in Req :
            /\ pc[s] \notin {"assigned", "prompted"} => UnsetOrComplete(st_fitness_agent[s])
            /\ UnsetOrComplete(agent[s]))

\* One script run of the Streamlit app has ended on the ValueError with its
\* global unset; another, the key being there, has constructed and obtained its
\* handle.
C22_Witness ==
    \E s1, s2 \in Req :
        /\ op[s1] = "streamlit" /\ pc[s1] = "done"
        /\ IsConstructionError(resp[s1], "streamlit")
        /\ st_fitness_agent[s1] = NoneAgent /\ agent[s1] = NoneAgent
        /\ op[s2] = "streamlit" /\ pc[s2] = "generating"
        /\ agent[s2] = FitnessAgent /\ KeyUsable(s2)

\* An /analyze of the service has ended on the failed construction; a later
\* one has constructed the handle and obtained it.
C22_WitnessService ==
    \E r1, r2 \in Req :
        /\ op[r1] = "analyze" /\ pc[r1] = "done"
        /\ IsConstructionError(resp[r1], "analyze")
        /\ op[r2] = "analyze" /\ pc[r2] = "generating"
        /\ agent[r2] = FitnessAgent /\ fitness_agent = FitnessAgent

----------------------------------------------------------------------------
(* C23 *)

\* C23: every 200 response of POST /bmr has weight_loss_calories =
\* daily_calories - 500 and weight_gain_calories = daily_calories + 500,
\* although the three figures are rounded one by one from calculate_bmr,
\* calculate_bmr - 500 and calculate_bmr + 500.
C23_LossAndGainAre500Apart ==
    \A r \in Req :
        (op[r] = "bmr" /\ pc[r] = "done" /\ resp[r].status = 200) =>
            LET b == resp[r].body
            IN  /\ b.weight_loss_calories = b.daily_calories - CALORIE_DELTA
                /\ b.weight_gain_calories = b.daily_calories + CALORIE_DELTA

----------------------------------------------------------------------------
(* C24 *)

\* C24: for every profile the Profile constructor accepts (age in [13,120],
\* weight > 0, height > 0, any gender, any activity level), calculate_bmr
\* returns a value greater than 0, and the bmr and daily_calories of the POST
\* /bmr response are greater than 0.
C24_BmrPositive ==
    \A r \in Req :
        (pc[r] = "done" /\ ~OutOfBounds(prof[r])) =>
            /\ (op[r] = "calculate_bmr" /\ resp[r].exc = "none")
                  => resp[r].body.value > 0
            /\ (op[r] = "bmr" /\ resp[r].status = 200)
                  => /\ resp[r].body.bmr > 0
                     /\ resp[r].body.daily_calories > 0

====
